---- MODULE Spec2Model ----
(***************************************************************************)
(* Inferno Bells: the timed playback scheduler (MidiPlayer), the           *)
(* application shell (App), the bell display (BellsContainer) and the      *)
(* uploader (MidiUploader).                                                *)
(*                                                                         *)
(* Time is the millisecond clock read by Date.now() and used by            *)
(* setTimeout.  A timer is a record in `timers`; it may fire once the      *)
(* clock has reached its deadline, and may fire late.  Pending timers      *)
(* fire in deadline order; timers with equal deadlines fire in any order.  *)
(* All callbacks run on one thread, so every handler is one atomic step.   *)
(***************************************************************************)
EXTENDS Integers, Sequences, FiniteSets, TLC

VARIABLES
    clock,          \* Date.now(), in ms since the page was loaded
    mounted,        \* the React tree is rendered (FALSE after an uncaught error)
    sequence,       \* App: useState(null)
    activeNote,     \* App: useState(null)
    isPlaying,      \* MidiPlayer: useState(false)
    progress,       \* MidiPlayer: useState(0), a ratio num/den
    playerRef,      \* MidiPlayer: useRef(null), None or the list of timer handles
    timers,         \* the browser's pending setTimeout registrations
    nextId,         \* the next handle setTimeout returns
    playingNotes,   \* BellsContainer: useState({}), note -> flag
    editMode,       \* BellsContainer: useState(false)
    effectPending,  \* a render changed activeNote and its effect has not run yet
    session,        \* observation: how many sessions playSequence has started
    liveSeq,        \* the sequence captured by the latest session's callbacks
    calls,          \* observation: the onBellPlay calls of the latest session
    prevCalls,      \* observation: how many calls the session before it made
    endedBy,        \* observation: who called stopPlayback on the latest session
    lastStop,       \* observation: the latest stopPlayback call found "live" or "idle"
    ignored,        \* observation: the latest click on Play returned at playSequence's guard
    selectedBell,   \* BellsContainer: useState(null), the bell selected in edit mode
    audioLog,       \* observation: the latest audio.play(): its note, its outcome, the handle of the timeout armed with it
    delivered,      \* observation: onMidiProcessed has been called, an upload has succeeded
    error,          \* MidiUploader: useState('')
    loading,        \* MidiUploader: useState(false)
    uploadProgress, \* MidiUploader: useState(0), its own progress
    requests,       \* the fetch calls that have not settled yet
    files,          \* observation: how many files the user has chosen
    lastUpload,     \* observation: the file handled last and what became of it
    heldFrom        \* observation: the upload whose answer App holds (0: none of the uploader's requests)

vars == <<clock, mounted, sequence, activeNote, isPlaying, progress, playerRef,
          timers, nextId, playingNotes, editMode, effectPending,
          session, liveSeq, calls, prevCalls, endedBy, lastStop,
          ignored, selectedBell, audioLog, delivered, error, loading,
          uploadProgress, requests, files, lastUpload,
          heldFrom>>

\* the state of MidiUploader
uploader == <<error, loading, uploadProgress, requests, files, lastUpload>>

----------------------------------------------------------------------------
(* Bounds of the model *)

\* the clock advances in steps of Quantum ms
Quantum == 250
\* the clock stops advancing at MaxClock ms
MaxClock == 1000
\* the longest uploaded sequence
MaxLen == 2
\* the number of sessions started
MaxPlays == 2
\* a timer fires at most MaxLate ms after its deadline
MaxLate == 250
\* the clock of the bell display alone advances in steps of BellQuantum ms
BellQuantum == 100
\* and stops advancing at MaxBellClock ms
MaxBellClock == 500
\* the number of clicks on bells
MaxClicks == 3
\* the number of files the user chooses
MaxFiles == 2

(* Constants of the program *)

GraceDelay == 500
FlagDelay == 200
\* the largest file the uploader submits, in bytes
MaxFileSize == 5000000

\* null for a note or a string
Null == "null"

\* a reference that is null, or that holds the value x
None == <<>>
Some(x) == <<x>>
Get(r) == r[1]

\* the keys of bellPositions ("Re" stands for the accented name)
NoteSet == {"Sol", "Fa", "Mi", "Re", "Do"}

\* the notes and times the uploaded sequences are built from
EventNotes == {"Do", "Mi"}
EventTimes == {0, 2 * Quantum}

NoteEvent == [note : EventNotes, time : EventTimes]

Sorted(s) == \A i \in 1..Len(s) - 1 : s[i].time <= s[i + 1].time

\* what the upload service returns: lists of events sorted by time
Sequences ==
    {s \in UNION {[1..n -> NoteEvent] : n \in 0..MaxLen} : Sorted(s)}

\* the sizes of the files the user chooses
FileSizes == {MaxFileSize - 1, MaxFileSize, MaxFileSize + 1}

\* how a request settles: the service answers with a sequence, fetch rejects,
\* the status is not 2xx, the answer carries an error field, or the answer is
\* not the JSON the uploader reads
Outcomes == {"ok", "network", "http", "app", "malformed"}

\* a service that breaks the data contract: 'La' is no key of bellPositions
ForeignNotes == {"Do", "La"}

ForeignSequences ==
    {s \in UNION {[1..n -> [note : ForeignNotes, time : EventTimes]] :
                     n \in 0..MaxLen} : Sorted(s)}

\* the answers of the service while requests are followed one by one
Answers ==
    {<<>>,
     <<[note |-> "Mi", time |-> 0]>>,
     <<[note |-> "Do", time |-> 2 * Quantum]>>}

Range(s) == {s[i] : i \in 1..Len(s)}

----------------------------------------------------------------------------
(* Numbers: progress is a JavaScript double, kept here as the exact ratio   *)
(* num/den with den >= 0.  0/0 is NaN and n/0 with n > 0 is Infinity, as    *)
(* IEEE division gives.  Division and multiplication by 100 are monotone    *)
(* in a double, so comparisons of the exact ratios agree with the code's.   *)

RECURSIVE Gcd(_, _)
Gcd(a, b) == IF b = 0 THEN a ELSE Gcd(b, a % b)

Ratio(n, d) ==
    IF d = 0 THEN [num |-> IF n = 0 THEN 0 ELSE 1, den |-> 0]
    ELSE [num |-> n \div Gcd(n, d), den |-> d \div Gcd(n, d)]

Zero == Ratio(0, 1)
Hundred == Ratio(100, 1)
NaN == Ratio(0, 0)

IsNaN(p) == p.num = 0 /\ p.den = 0

\* p <= q for ratios that are not NaN
Leq(p, q) == p.num * q.den <= q.num * p.den

\* Math.min(p, q): NaN if either argument is NaN
MathMin(p, q) ==
    IF IsNaN(p) \/ IsNaN(q) THEN NaN
    ELSE IF Leq(p, q) THEN p ELSE q

\* a slip: the ratio is not scaled to a percentage
PercentageUnscaled(elapsed, totalDuration) == Ratio(elapsed, totalDuration)

\* (elapsed / totalDuration) * 100
Percentage(elapsed, totalDuration) == Ratio(elapsed * 100, totalDuration)

----------------------------------------------------------------------------
(* MidiUploader *)

\* the values of the error state: none, the message of the size check, the
\* message of the catch block
NoError == ""
TooLargeError == "File is too large. Please choose a smaller MIDI file (max 5MB)."
UploadFailed == "Upload failed: ..."

\* a slip: a file of exactly the limit is turned away
TooLargeFromLimit(size) == size >= MaxFileSize

\* file.size > 5000000
TooLarge(size) == size > MaxFileSize

\* a slip: response.ok is not tested
DeliversDespiteStatus(outcome) == outcome \in {"ok", "http"}

\* the try block reaches onMidiProcessed: nothing was thrown on the way
Delivers(outcome) == outcome = "ok"

----------------------------------------------------------------------------
(* MidiPlayer *)

Sched == [isPlaying |-> isPlaying, progress |-> progress,
          playerRef |-> playerRef, timers |-> timers]

\* a slip: the loop stops one handle short
ClearTimeoutsButLast(ref, tm) ==
    {t \in tm : t.id \notin {ref[i] : i \in 1..Len(ref) - 1}}

\* playerRef.current.forEach(timeout => clearTimeout(timeout))
ClearTimeouts(ref, tm) == {t \in tm : t.id \notin Range(ref)}

\* a slip: the handles are dropped without clearing their timers
stopPlaybackNoClear(s) ==
    [isPlaying |-> FALSE, progress |-> Zero, playerRef |-> None,
     timers |-> s.timers]

\* a slip: the button's state is toggled instead of cleared
stopPlaybackToggle(s) ==
    [isPlaying |-> ~s.isPlaying,
     progress  |-> Zero,
     playerRef |-> None,
     timers    |-> IF s.playerRef # None
                   THEN ClearTimeouts(Get(s.playerRef), s.timers)
                   ELSE s.timers]

\* a slip: the progress bar is left where it was
stopPlaybackKeepsProgress(s) ==
    [isPlaying |-> FALSE,
     progress  |-> s.progress,
     playerRef |-> None,
     timers    |-> IF s.playerRef # None
                   THEN ClearTimeouts(Get(s.playerRef), s.timers)
                   ELSE s.timers]

\* stopPlayback, as a function of the scheduler's state
stopPlayback(s) ==
    [isPlaying |-> FALSE,
     progress  |-> Zero,
     playerRef |-> None,
     timers    |-> IF s.playerRef # None
                   THEN ClearTimeouts(Get(s.playerRef), s.timers)
                   ELSE s.timers]

\* the timer armed for sequence[index] by the session numbered ses
EventTimer(seq, index, ses, id, now) ==
    [id |-> id, kind |-> "event", due |-> now + seq[index].time,
     session |-> ses, index |-> index, note |-> seq[index].note,
     startTime |-> now, totalDuration |-> seq[Len(seq)].time,
     last |-> (index = Len(seq))]

\* setTimeout(stopPlayback, 500)
GraceTimer(ses, id, now) ==
    [id |-> id, kind |-> "grace", due |-> now + GraceDelay,
     session |-> ses, index |-> 0, note |-> Null,
     startTime |-> 0, totalDuration |-> 0, last |-> FALSE]

\* the setTimeout of handleBellClick
FlagTimer(note, id, now) ==
    [id |-> id, kind |-> "flag", due |-> now + FlagDelay,
     session |-> 0, index |-> 0, note |-> note,
     startTime |-> 0, totalDuration |-> 0, last |-> FALSE]

\* playSequence, for a non-empty sequence, as a function of the scheduler's state
playSequence(s, seq, ses, id, now) ==
    LET st == stopPlayback(s)
        armed == {EventTimer(seq, i, ses, id + i - 1, now) : i \in 1..Len(seq)}
    IN  [isPlaying |-> TRUE,
         progress  |-> st.progress,
         playerRef |-> Some([i \in 1..Len(seq) |-> id + i - 1]),
         timers    |-> st.timers \cup armed]

\* a slip: the guard comes after the call of stopPlayback
playSequenceStopsFirst(s, seqRef, ses, id, now) ==
    IF seqRef = None \/ Len(Get(seqRef)) = 0 THEN stopPlayback(s)
    ELSE playSequence(s, Get(seqRef), ses, id, now)

\* playSequence as the button calls it, on the sequence prop (None is null):
\* if (!sequence || sequence.length === 0) return;
playSequenceGuarded(s, seqRef, ses, id, now) ==
    IF seqRef = None \/ Len(Get(seqRef)) = 0 THEN s
    ELSE playSequence(s, Get(seqRef), ses, id, now)

\* a slip: the player is rendered whether or not a sequence is held
PlayerAlwaysRendered == mounted

\* App: {sequence && <MidiPlayer ... />}; an empty array is truthy
PlayerRendered == mounted /\ sequence # None

SetSched(s) ==
    /\ isPlaying' = s.isPlaying
    /\ progress' = s.progress
    /\ playerRef' = s.playerRef
    /\ timers' = s.timers

\* observation of a stopPlayback call made by `by`
Stopping(by) ==
    /\ endedBy' = IF isPlaying THEN by ELSE endedBy
    /\ lastStop' = IF isPlaying THEN "live" ELSE "idle"

\* a timer may fire when it is due and no pending timer has an earlier deadline
Due(t) ==
    /\ t \in timers
    /\ t.due <= clock
    /\ \A u \in timers : t.due <= u.due

\* prev => ({ ...prev, [note]: flag })
SetFlag(prev, note, flag) ==
    [n \in DOMAIN prev \cup {note} |-> IF n = note THEN flag ELSE prev[n]]

----------------------------------------------------------------------------
Init ==
    /\ clock = 0
    /\ mounted = TRUE
    /\ sequence = None
    /\ activeNote = Null
    /\ isPlaying = FALSE
    /\ progress = Zero
    /\ playerRef = None
    /\ timers = {}
    /\ nextId = 1
    /\ playingNotes = [n \in {} |-> FALSE]
    /\ editMode = FALSE
    /\ effectPending = FALSE
    /\ session = 0
    /\ liveSeq = <<>>
    /\ calls = <<>>
    /\ prevCalls = 0
    /\ endedBy = "none"
    /\ lastStop = "none"
    /\ ignored = FALSE
    /\ selectedBell = Null
    /\ audioLog = [note |-> Null, ok |-> TRUE, timer |-> 0]
    /\ delivered = FALSE
    /\ error = NoError
    /\ loading = FALSE
    /\ uploadProgress = 0
    /\ requests = {}
    /\ files = 0
    /\ lastUpload = [id |-> 0, size |-> 0, outcome |-> "none"]
    /\ heldFrom = 0

\* time passes
Tick ==
    /\ ~effectPending
    /\ clock + Quantum <= MaxClock
    /\ \A t \in timers : clock + Quantum <= t.due + MaxLate
    /\ clock' = clock + Quantum
    /\ UNCHANGED <<heldFrom, uploader, delivered, audioLog, selectedBell, ignored, mounted, sequence, activeNote, isPlaying, progress, playerRef,
                   timers, nextId, playingNotes, editMode, effectPending,
                   session, liveSeq, calls, prevCalls, endedBy,
                   lastStop>>

\* a slip: MidiPlayer's cleanup effect depends on the sequence prop, so a new
\* sequence stops the session
handleMidiProcessedStops(bellSequence) ==
    /\ mounted
    /\ ~effectPending
    /\ session < MaxPlays
    /\ sequence' = Some(bellSequence)
    /\ delivered' = TRUE
    /\ SetSched(stopPlayback(Sched))
    /\ UNCHANGED <<heldFrom, uploader, selectedBell, audioLog, ignored, clock, mounted,
                   activeNote, nextId, playingNotes, editMode, effectPending,
                   session, liveSeq, calls, prevCalls, endedBy, lastStop>>

\* App.handleMidiProcessed, called by the uploader with the service's answer
handleMidiProcessed(bellSequence) ==
    /\ mounted
    /\ ~effectPending
    /\ session < MaxPlays
    /\ sequence' = Some(bellSequence)
    /\ delivered' = TRUE
    /\ UNCHANGED <<heldFrom, uploader, audioLog, selectedBell, ignored, clock, mounted, activeNote, isPlaying, progress, playerRef,
                   timers, nextId, playingNotes, editMode, effectPending,
                   session, liveSeq, calls, prevCalls, endedBy, lastStop>>

\* the button of MidiPlayer while it reads 'Play': onClick = playSequence
ClickPlay ==
    /\ PlayerRendered
    /\ ~effectPending
    /\ ~isPlaying
    /\ session < MaxPlays
    /\ SetSched(playSequenceGuarded(Sched, sequence, session + 1, nextId, clock))
    /\ IF sequence = None \/ Len(Get(sequence)) = 0
       THEN /\ ignored' = TRUE
            /\ UNCHANGED <<nextId, session, liveSeq, calls, prevCalls, endedBy,
                           lastStop>>
       ELSE /\ ignored' = FALSE
            /\ nextId' = nextId + Len(Get(sequence))
            /\ session' = session + 1
            /\ liveSeq' = Get(sequence)
            /\ calls' = <<>>
            /\ prevCalls' = Len(calls)
            /\ endedBy' = "none"
            /\ lastStop' = IF isPlaying THEN "live" ELSE "idle"
    /\ UNCHANGED <<heldFrom, uploader, delivered, audioLog, selectedBell, clock, mounted, sequence, activeNote, playingNotes, editMode,
                   effectPending>>

\* the button of MidiPlayer while it reads 'Stop': onClick = stopPlayback
ClickStop ==
    /\ PlayerRendered
    /\ ~effectPending
    /\ isPlaying
    /\ SetSched(stopPlayback(Sched))
    /\ Stopping("user")
    /\ UNCHANGED <<heldFrom, uploader, delivered, audioLog, selectedBell, ignored, clock, mounted, sequence, activeNote, nextId, playingNotes,
                   editMode, effectPending, session, liveSeq, calls, prevCalls>>

\* the callback of an event timer
FireEvent(t) ==
    /\ ~effectPending
    /\ Due(t)
    /\ t.kind = "event"
    \* onBellPlay(event.note) is App.handleBellPlay: setActiveNote(note)
    /\ activeNote' = t.note
    /\ effectPending' = (activeNote # t.note)
    /\ calls' = Append(calls, [session |-> t.session, index |-> t.index,
                               note |-> t.note, late |-> (clock > t.due),
                               rung |-> FALSE])
    /\ progress' = MathMin(Percentage(clock - t.startTime, t.totalDuration),
                           Hundred)
    /\ IF t.last
       THEN /\ timers' = (timers \ {t}) \cup {GraceTimer(t.session, nextId, clock)}
            /\ nextId' = nextId + 1
       ELSE /\ timers' = timers \ {t}
            /\ nextId' = nextId
    /\ UNCHANGED <<heldFrom, uploader, delivered, audioLog, selectedBell, ignored, clock, mounted, sequence, isPlaying, playerRef, playingNotes,
                   editMode, session, liveSeq, prevCalls, endedBy,
                   lastStop>>

\* setTimeout(stopPlayback, 500) fires
FireGrace(t) ==
    /\ ~effectPending
    /\ Due(t)
    /\ t.kind = "grace"
    /\ SetSched(stopPlayback([Sched EXCEPT !.timers = timers \ {t}]))
    /\ Stopping("grace")
    /\ UNCHANGED <<heldFrom, uploader, delivered, audioLog, selectedBell, ignored, clock, mounted, sequence, activeNote, nextId, playingNotes,
                   editMode, effectPending, session, liveSeq, calls, prevCalls>>

\* the timeout of handleBellClick fires
FireFlag(t) ==
    /\ ~effectPending
    /\ Due(t)
    /\ t.kind = "flag"
    /\ timers' = timers \ {t}
    /\ playingNotes' = IF mounted THEN SetFlag(playingNotes, t.note, FALSE)
                       ELSE playingNotes
    /\ UNCHANGED <<heldFrom, uploader, delivered, audioLog, selectedBell, ignored, clock, mounted, sequence, activeNote, isPlaying, progress,
                   playerRef, nextId, editMode, effectPending,
                   session, liveSeq, calls, prevCalls, endedBy,
                   lastStop>>

\* audioRefs.current[note].play() is called for a note that has an Audio; ok
\* tells whether its promise resolves, and a rejection is caught and logged
PlayAudio(note, ok) ==
    IF note \in NoteSet
    THEN audioLog' = [note |-> note, ok |-> ok, timer |-> nextId]
    ELSE UNCHANGED audioLog

\* a slip: the flag is set only once the audio has started
StrikeAfterAudio(note, ok) ==
    /\ PlayAudio(note, ok)
    /\ IF ok
       THEN /\ playingNotes' = SetFlag(playingNotes, note, TRUE)
            /\ timers' = timers \cup {FlagTimer(note, nextId, clock)}
            /\ nextId' = nextId + 1
       ELSE UNCHANGED <<playingNotes, timers, nextId>>

\* handleBellClick(note) outside edit mode: the audio is started, the flag of
\* the note is set and a timeout of its own is armed to clear it
Strike(note, ok) ==
    /\ PlayAudio(note, ok)
    /\ playingNotes' = SetFlag(playingNotes, note, TRUE)
    /\ timers' = timers \cup {FlagTimer(note, nextId, clock)}
    /\ nextId' = nextId + 1

\* handleBellClick(note) without an event, outside edit mode
Ring(note, ok) ==
    /\ Strike(note, ok)
    /\ calls' = [calls EXCEPT ![Len(calls)].rung = TRUE]
    /\ UNCHANGED <<mounted, isPlaying, progress, playerRef, endedBy, lastStop>>

\* handleBellClick(note) without an event, in edit mode: e.target throws a
\* TypeError inside the effect; no error boundary catches it, so React
\* unmounts the tree and the cleanup of MidiPlayer's effect calls stopPlayback
Crash ==
    /\ mounted' = FALSE
    /\ SetSched(stopPlayback(Sched))
    /\ Stopping("unmount")
    /\ UNCHANGED <<nextId, playingNotes, calls, audioLog>>

\* BellsContainer: useEffect(() => { if (activeNote) handleBellClick(activeNote) })
RunEffect ==
    /\ effectPending
    /\ effectPending' = FALSE
    /\ IF editMode THEN Crash ELSE \E ok \in BOOLEAN : Ring(activeNote, ok)
    /\ UNCHANGED <<heldFrom, uploader, delivered, selectedBell, ignored, clock, sequence, activeNote, editMode, session, liveSeq,
                   prevCalls>>

\* the edit-toggle button
ToggleEdit ==
    /\ mounted
    /\ ~effectPending
    /\ editMode' = ~editMode
    /\ UNCHANGED <<heldFrom, uploader, delivered, audioLog, selectedBell, ignored, clock, mounted, sequence, activeNote, isPlaying, progress,
                   playerRef, timers, nextId, playingNotes, effectPending,
                   session, liveSeq, calls, prevCalls, endedBy,
                   lastStop>>

\* the user clicks the bell of a note: handleMouseDown(e, note), then
\* handleBellClick(note, e)
ClickBell(note) ==
    /\ mounted
    /\ ~effectPending
    /\ nextId <= MaxClicks
    /\ IF editMode
       THEN /\ selectedBell' = note
            /\ UNCHANGED <<playingNotes, timers, nextId, audioLog>>
       ELSE /\ \E ok \in BOOLEAN : Strike(note, ok)
            /\ UNCHANGED selectedBell
    /\ UNCHANGED <<heldFrom, uploader, delivered, clock, mounted, sequence, activeNote, isPlaying, progress,
                   playerRef, editMode, effectPending, session, liveSeq, calls,
                   prevCalls, endedBy, lastStop, ignored>>

\* time passes, seen at the resolution of the bell display
TickBell ==
    /\ ~effectPending
    /\ clock + BellQuantum <= MaxBellClock
    /\ \A t \in timers : clock + BellQuantum <= t.due + MaxLate
    /\ clock' = clock + BellQuantum
    /\ UNCHANGED <<heldFrom, uploader, delivered, audioLog, mounted, sequence, activeNote, isPlaying, progress, playerRef,
                   timers, nextId, playingNotes, editMode, effectPending,
                   session, liveSeq, calls, prevCalls, endedBy, lastStop,
                   ignored, selectedBell>>

\* handleFileUpload up to its first await: the user chooses a file
SelectFile(size) ==
    /\ mounted
    /\ ~effectPending
    /\ files < MaxFiles
    /\ files' = files + 1
    /\ IF TooLarge(size)
       THEN /\ error' = TooLargeError
            /\ lastUpload' = [id |-> files + 1, size |-> size,
                               outcome |-> "rejected"]
            /\ UNCHANGED <<loading, uploadProgress, requests>>
       ELSE /\ loading' = TRUE
            /\ error' = NoError
            /\ uploadProgress' = 10
            /\ requests' = requests \cup {[id |-> files + 1, size |-> size]}
            /\ lastUpload' = [id |-> files + 1, size |-> size,
                               outcome |-> "sent"]
    /\ UNCHANGED <<heldFrom, clock, mounted, sequence, activeNote, isPlaying, progress,
                   playerRef, timers, nextId, playingNotes, editMode,
                   effectPending, session, liveSeq, calls, prevCalls, endedBy,
                   lastStop, ignored, selectedBell, audioLog, delivered>>

\* handleFileUpload from the settling of its request to its end: the try
\* block, then catch and finally.  The state updates of one continuation are
\* rendered together; after an unmount they are dropped.
Respond(r, outcome, bellSequence) ==
    /\ r \in requests
    /\ ~effectPending
    /\ requests' = requests \ {r}
    /\ lastUpload' = [id |-> r.id, size |-> r.size, outcome |-> outcome]
    /\ IF mounted
       THEN /\ IF Delivers(outcome)
               \* onMidiProcessed(bellSequence) is App.handleMidiProcessed
               THEN /\ sequence' = Some(bellSequence)
                    /\ delivered' = TRUE
                    /\ heldFrom' = r.id
                    /\ UNCHANGED error
               ELSE /\ error' = UploadFailed
                    /\ UNCHANGED <<sequence, delivered, heldFrom>>
            /\ loading' = FALSE
            /\ uploadProgress' = 0
       ELSE UNCHANGED <<sequence, delivered, heldFrom, error, loading,
                        uploadProgress>>
    /\ UNCHANGED <<clock, mounted, activeNote, isPlaying, progress, playerRef,
                   timers, nextId, playingNotes, editMode, effectPending,
                   session, liveSeq, calls, prevCalls, endedBy, lastStop,
                   ignored, selectedBell, audioLog, files>>

\* the uploader delivers the sequence the service extracted from a file
Upload == \E s \in Sequences : handleMidiProcessed(s)

\* the event loop runs the callback of a timer that is due
EventTimerFires == \E t \in timers : FireEvent(t)
GraceTimerFires == \E t \in timers : FireGrace(t)
FlagTimerFires == \E t \in timers : FireFlag(t)

Next ==
    \/ Tick
    \/ Upload
    \/ ClickPlay
    \/ ClickStop
    \/ EventTimerFires
    \/ GraceTimerFires
    \/ FlagTimerFires
    \/ RunEffect
    \/ ToggleEdit

Spec == Init /\ [][Next]_vars

\* the application with the uploader's requests in flight
FileChosen == \E size \in FileSizes : SelectFile(size)
Responded ==
    \E r \in requests, outcome \in Outcomes, s \in Answers :
        Respond(r, outcome, s)

NextUpload ==
    \/ Tick
    \/ FileChosen
    \/ Responded
    \/ ClickPlay
    \/ ClickStop
    \/ EventTimerFires
    \/ GraceTimerFires
    \/ FlagTimerFires
    \/ RunEffect
    \/ ToggleEdit

SpecUpload == Init /\ [][NextUpload]_vars

\* the application fed by a service that returns notes outside the note set
UploadForeign == \E s \in ForeignSequences : handleMidiProcessed(s)

NextForeign ==
    \/ Tick
    \/ UploadForeign
    \/ ClickPlay
    \/ ClickStop
    \/ EventTimerFires
    \/ GraceTimerFires
    \/ FlagTimerFires
    \/ RunEffect
    \/ ToggleEdit

SpecForeign == Init /\ [][NextForeign]_vars

\* the bell display on its own, clicked by the user
BellClicked == \E note \in NoteSet : ClickBell(note)

NextBell ==
    \/ TickBell
    \/ BellClicked
    \/ FlagTimerFires
    \/ ToggleEdit

SpecBell == Init /\ [][NextBell]_vars

----------------------------------------------------------------------------
(* Properties *)

EventTimers == {t \in timers : t.kind = "event"}

TotalDuration == liveSeq[Len(liveSeq)].time

\* the call for the event at index i has been made
Called(i) == \E k \in 1..Len(calls) : calls[k].index = i

InRange(p) == ~IsNaN(p) /\ Leq(Zero, p) /\ Leq(p, Hundred)

\* C1: once stopPlayback has returned, no event timer of the stopped session
\* is pending, so the session makes no further onBellPlay call: an event timer
\* is pending only for the latest session, while it plays and before anyone
\* has stopped it.
C1_StopCancelsEventTimers ==
    \A t \in EventTimers :
        isPlaying /\ endedBy = "none" /\ t.session = session

\* the user pressed Stop after some events of the session had fired and
\* before the others had
C1_Witness ==
    /\ endedBy = "user"
    /\ Len(calls) > 0
    /\ Len(calls) < Len(liveSeq)

\* C2: a session that no user stop and no later play ended, and that its
\* completion teardown closed, has made exactly one onBellPlay call per event
\* of its sequence, the calls of strictly earlier events first.
C2_OneTriggerPerEvent ==
    endedBy = "grace" =>
        /\ Len(calls) = Len(liveSeq)
        /\ \A i \in 1..Len(liveSeq) :
               \E k \in 1..Len(calls) :
                   /\ calls[k].index = i
                   /\ calls[k].note = liveSeq[i].note
        /\ \A j, k \in 1..Len(calls) :
               liveSeq[calls[j].index].time < liveSeq[calls[k].index].time
                   => j < k

\* C3: once the effect of a render has run, every onBellPlay call of the
\* session has performed its note's effect in the bell display.
C3_EveryTriggerRings ==
    (mounted /\ ~effectPending) =>
        \A k \in 1..Len(calls) : calls[k].rung

\* C4: every onBellPlay call made since the latest play() is a call of that
\* session, for an event of the sequence it was started with; no call comes
\* from a session started before it.
C4_OnlyLatestSessionTriggers ==
    \A k \in 1..Len(calls) :
        /\ calls[k].session = session
        /\ calls[k].index \in 1..Len(liveSeq)
        /\ calls[k].note = liveSeq[calls[k].index].note

\* a second session was started before any event of the first had fired, and
\* has triggered every event of its own sequence
C4_Witness ==
    /\ session = 2
    /\ prevCalls = 0
    /\ Len(calls) = Len(liveSeq)
    /\ isPlaying

\* C5: no event timer and no completion-teardown timer armed for an earlier
\* session is pending once a later session has been started.
C5_NoEarlierSessionTimer ==
    \A t \in timers :
        t.kind \in {"event", "grace"} => t.session = session

\* C6: progress always lies in [0,100]; while one session plays it never
\* decreases, and it drops only to 0 and only when the session ends.
C6_ProgressMonotoneInRange ==
    [][/\ InRange(progress')
       /\ (InRange(progress) /\ ~Leq(progress, progress'))
              => (progress' = Zero /\ ~isPlaying')]_vars

\* C7: while a session whose last event time is greater than 0 plays, once
\* the timer of its final event has fired progress is exactly 100.
C7_FinalEventGivesHundred ==
    (isPlaying /\ Len(liveSeq) > 0 /\ TotalDuration > 0 /\ Called(Len(liveSeq)))
        => progress = Hundred

\* the final event of such a session has fired after its deadline
C7_Witness ==
    /\ isPlaying
    /\ Len(liveSeq) > 1
    /\ TotalDuration > 0
    /\ \E k \in 1..Len(calls) :
           calls[k].index = Len(liveSeq) /\ calls[k].late
    /\ progress = Hundred

\* C8: while a session whose totalDuration is 0 plays, progress is 100 as
\* soon as an event of it has fired.
C8_ZeroDurationGivesHundred ==
    (isPlaying /\ Len(liveSeq) > 0 /\ TotalDuration = 0 /\ Len(calls) > 0)
        => progress = Hundred

\* C9: the completion teardown returns the scheduler to Idle only after the
\* last event of the live session has fired.
C9_IdleOnlyAfterLastEvent ==
    endedBy = "grace" =>
        /\ Called(Len(liveSeq))
        /\ ~isPlaying
        /\ progress = Zero
        /\ EventTimers = {}

\* C10: stopPlayback leaves the scheduler Idle with progress 0 and no handle;
\* calling it again changes nothing, and calling it when no session is live
\* changes nothing.
C10_StopIdempotent ==
    LET once == stopPlayback(Sched)
    IN  /\ ~once.isPlaying
        /\ once.progress = Zero
        /\ once.playerRef = None
        /\ stopPlayback(once) = once
        /\ ~isPlaying => once = Sched

\* stopPlayback has been called on a session the user had already stopped
C10_Witness ==
    /\ endedBy = "user"
    /\ lastStop = "idle"
    /\ ~isPlaying

\* C11: playSequence called with no sequence or with an empty one changes
\* nothing, whatever state the scheduler is in: isPlaying and progress keep
\* their values, no timer is armed and none is cancelled, a live session
\* included.
C11_PlayOnNothingIsNoOp ==
    \A seqRef \in {None, Some(<<>>)} :
        playSequenceGuarded(Sched, seqRef, session + 1, nextId, clock) = Sched

\* Play was clicked on an empty sequence while a timer was pending, and the
\* timer is still pending
C11_Witness ==
    /\ ignored
    /\ sequence = Some(<<>>)
    /\ session > 0
    /\ timers # {}
    /\ ~isPlaying

\* the flag timers whose 200 ms have not elapsed: the triggers of note that are
\* within their window
InWindow(note) ==
    {t \in timers : t.kind = "flag" /\ t.note = note /\ clock < t.due}

\* C12: the flag of a note is true at every instant at which some trigger of
\* the note is within its 200 ms window.
C12_FlagTrueWithinWindow ==
    \A note \in NoteSet :
        InWindow(note) # {} => (note \in DOMAIN playingNotes /\ playingNotes[note])

\* C13: a trigger delivered to the bell display by playback never raises an
\* error, whatever state the display is in: no state is reached in which an
\* uncaught error of the trigger has torn the rendered tree down.
C13_TriggerNeverThrows == mounted

\* the timers of the scheduler: event timers and completion teardowns
SchedulerTimers == {t \in timers : t.kind # "flag"}

\* C14: a call of handleBellClick whose audio.play() fails raises no error,
\* still sets the note's flag and arms the 200 ms timeout that clears it, and
\* leaves isPlaying, progress and the scheduler's timers as they were; when
\* that timeout fires, 200 ms later or more, the flag is cleared.
C14_AudioFailureAbsorbed ==
    [][/\ (audioLog' # audioLog /\ ~audioLog'.ok) =>
              /\ mounted' = mounted
              /\ audioLog'.note \in DOMAIN playingNotes'
              /\ playingNotes'[audioLog'.note]
              /\ FlagTimer(audioLog'.note, audioLog'.timer, clock)
                     \in timers' \ timers
              /\ SchedulerTimers' = SchedulerTimers
              /\ UNCHANGED <<isPlaying, progress, playerRef>>
       /\ \A t \in timers \ timers' :
              (t.kind = "flag" /\ t.id = audioLog.timer /\ ~audioLog.ok /\ mounted)
                  => (clock >= t.due /\ ~playingNotes'[t.note])]_vars

\* the audio of a note triggered by a live session has failed; the flag of
\* the note is set, its timeout is pending and so are event timers of the
\* session
C14_Witness ==
    /\ ~audioLog.ok
    /\ isPlaying
    /\ EventTimers # {}
    /\ Len(calls) > 0
    /\ calls[Len(calls)].rung
    /\ audioLog.note = calls[Len(calls)].note
    /\ playingNotes[audioLog.note]
    /\ \E t \in timers : t.kind = "flag" /\ t.id = audioLog.timer

\* C15: a trigger of a note outside the five bell names changes nothing: no
\* flag exists for such a note and no timeout is pending for it.
C15_ForeignNoteIsNoOp ==
    /\ DOMAIN playingNotes \subseteq NoteSet
    /\ \A t \in timers : t.kind = "flag" => t.note \in NoteSet

\* C16: an upload attempt that fails (the file is too large, the status is
\* not 2xx, the answer carries an error field or is unreadable, or fetch
\* rejects) sets an error message and changes neither the sequence App
\* holds nor anything of the scheduler and the bell display; a non-2xx status
\* and an error field leave the uploader in the same state.
C16_FailedUploadLeavesNoTrace ==
    [][(lastUpload' # lastUpload /\ lastUpload'.outcome \notin {"sent", "ok"}) =>
           /\ mounted => error' # NoError
           /\ (mounted /\ lastUpload'.outcome \in {"http", "app"}) =>
                  (error' = UploadFailed /\ ~loading' /\ uploadProgress' = 0)
           /\ UNCHANGED <<sequence, delivered, isPlaying, progress, playerRef,
                          timers, nextId, activeNote, playingNotes, session,
                          liveSeq, calls>>]_vars

\* a request has settled with a non-2xx status while a session was live with
\* event timers pending
C16_Witness ==
    /\ lastUpload.outcome = "http"
    /\ error = UploadFailed
    /\ isPlaying
    /\ EventTimers # {}
    /\ sequence = Some(liveSeq)

\* C17: a file larger than 5,000,000 bytes is rejected with an error and no
\* request is sent for it; a file of 5,000,000 bytes or less is submitted.  No
\* request in flight carries a file above the limit.
C17_SizeLimit ==
    [][/\ files' = files + 1 =>
              IF lastUpload'.size > 5000000
              THEN /\ requests' = requests
                   /\ error' = TooLargeError
                   /\ lastUpload'.outcome = "rejected"
              ELSE /\ requests' =
                          requests \cup {[id |-> files', size |-> lastUpload'.size]}
                   /\ lastUpload'.outcome = "sent"
       /\ \A r \in requests' : r.size <= 5000000]_vars

\* a file of exactly 5,000,000 bytes is in flight, and the file chosen after
\* it has been rejected for its size
C17_Witness ==
    /\ \E r \in requests : r.size = 5000000
    /\ lastUpload.outcome = "rejected"
    /\ lastUpload.size = 5000001
    /\ error = TooLargeError

\* C18: while the application is rendered, the Play/Stop button exists exactly
\* when an upload has succeeded, which is exactly when App holds a sequence;
\* no session has been started and Play has never been clicked before that.
C18_PlayerIffSequence ==
    /\ mounted => (PlayerRendered <=> delivered)
    /\ delivered <=> sequence # None
    /\ (session > 0 \/ ignored \/ isPlaying) => delivered

\* every upload so far has failed, the last one on an error field, and the
\* rendered application still has no player
C18_Witness ==
    /\ mounted
    /\ files = MaxFiles
    /\ requests = {}
    /\ lastUpload.outcome = "app"
    /\ ~delivered
    /\ ~PlayerRendered

\* C19: whenever isPlaying is false, progress is 0, no event timer is pending
\* and no handle is held.
C19_IdleIsClean ==
    ~isPlaying => (progress = Zero /\ EventTimers = {} /\ playerRef = None)

\* the teardown timer of the first session has ended the second one while
\* events of it were still to fire, after progress had moved
C19_Witness ==
    /\ ~isPlaying
    /\ session = 2
    /\ endedBy = "grace"
    /\ Len(calls) > 0
    /\ Len(calls) < Len(liveSeq)

\* C20: a step that replaces App's sequence changes nothing of the scheduler;
\* every event timer and every onBellPlay call of the live session is for an
\* event of the sequence the session was started with, at that event's time;
\* the session's teardown is armed by the last event of that sequence; and a
\* session is started on the sequence App holds at the click.
C20_SessionSequenceFixed ==
    [][/\ sequence' # sequence =>
              UNCHANGED <<liveSeq, session, timers, playerRef, isPlaying,
                          progress, calls, nextId>>
       /\ \A t \in EventTimers' :
              /\ t.index \in 1..Len(liveSeq')
              /\ t.note = liveSeq'[t.index].note
              /\ t.due = t.startTime + liveSeq'[t.index].time
              /\ t.last = (t.index = Len(liveSeq'))
       /\ \A k \in 1..Len(calls') :
              /\ calls'[k].index \in 1..Len(liveSeq')
              /\ calls'[k].note = liveSeq'[calls'[k].index].note
       /\ \A t \in timers' \ timers :
              t.kind = "grace" =>
                  /\ t.session = session
                  /\ calls'[Len(calls')].index = Len(liveSeq)
       /\ session' # session =>
              /\ liveSeq' = Get(sequence)
              /\ Cardinality(EventTimers') = Len(Get(sequence))]_vars

\* App's sequence was replaced while the session was live; the session has
\* triggered both events of its own sequence and armed its teardown
C20_Witness ==
    /\ isPlaying
    /\ sequence # Some(liveSeq)
    /\ Len(liveSeq) = 2
    /\ Len(Get(sequence)) = 1
    /\ Len(calls) = 2
    /\ calls[1].index = 1
    /\ calls[2].index = 2
    /\ \E t \in timers : t.kind = "grace" /\ t.session = session

\* C21: the answer of an upload submitted earlier never replaces the answer
\* of an upload submitted after it, so that App ends up holding the answer of
\* the upload submitted last; and while the application is rendered the
\* loading flag is true as long as a request is in flight.
C21_LastSubmittedWins ==
    [][/\ heldFrom' >= heldFrom
       /\ (mounted' /\ requests' # {}) => loading']_vars
====
